---- MODULE Spec2Model ----
(***************************************************************************)
(* Model of vedo.pointcloud.Points: the point store (raw coordinates,      *)
(* actor pose, per-point arrays), the cached point/cell locators used by   *)
(* closestPoint, and the operations that read or rewrite coordinates.      *)
(*                                                                         *)
(* Geometry is kept exact by working on the integer lattice with all       *)
(* sample points on the x axis: the pose is a uniform integer scale, a     *)
(* rotation about z by 0 or 180 degrees and a translation along x, so      *)
(* every effective coordinate stays an integer point of the x axis.        *)
(***************************************************************************)
EXTENDS Integers, Sequences, FiniteSets, TLC

VARIABLES
    pd,             \* the vtkPolyData object currently owned by the actor
    _polydata,      \* self._polydata: None or a reference to pd
    mapperInput,    \* self._mapper.GetInput(): None or a reference to pd
    prop3D,         \* vtkProp3D state of the actor (pose)
    point_locator,  \* self.point_locator
    cell_locator,   \* self.cell_locator
    info,           \* self.info["variances"]
    other,          \* the second object there is once clone() was called
    ret,            \* what the last call did and returned
    calls           \* number of calls made on the object so far

vars == <<pd, _polydata, mapperInput, prop3D, point_locator, cell_locator,
          info, other, ret, calls>>

----------------------------------------------------------------------------
(* Bounds *)

MaxPts == 5          \* largest number of points in a coordinate list
MaxCoord == 12       \* |x| of a stored coordinate never exceeds this
MaxCalls == 3        \* number of calls made on one object

----------------------------------------------------------------------------
(* Values *)

None == "None"
PD == "pd"
Absent == 0 - 1      \* length recorded for a point-data array that is not present

ArrayNames == {"Points_RGBA", "PointScalars", "GaussNoise"}
NoArrays == [a \in ArrayNames |-> Absent]

Vec(x) == <<x, 0, 0>>

\* x coordinates the sample coordinate lists are cut from
PatternA == <<0, 9, 1, 2, 3, 4, 10>>
PatternB == <<6, 6, 5, 7, 8, 1, 2>>

Prefix(pat, n) == [i \in 1..n |-> Vec(pat[i])]

\* N x 3 coordinate lists handed to the constructor and to the setter
CoordLists ==
    {Prefix(PatternA, MaxPts), Prefix(PatternB, 3), Prefix(PatternA, 1)}

\* what a read of memory outside a vtkPoints buffer yields: any value at all,
\* represented by one point outside the range of every coordinate of the model
Garbage == Vec(10 * MaxCoord)

Abs(x) == IF x < 0 THEN -x ELSE x

\* the coordinates stay within the bound of the model
InRange(pts) ==
    \A i \in 1..Len(pts) :
        pts[i] = Garbage \/ \A k \in 1..3 : Abs(pts[i][k]) <= MaxCoord

----------------------------------------------------------------------------
(* vtkProp3D: pose of the actor *)

\* vtkProp3D::GetMatrix applied to one point: scale, rotate about z, translate
ApplyMatrix(m, p) ==
    IF p = Garbage THEN Garbage ELSE
    LET s == <<m.Scale * p[1], m.Scale * p[2], m.Scale * p[3]>>
        r == IF m.Orientation = 180 THEN <<-s[1], -s[2], s[3]>> ELSE s
    IN  <<r[1] + m.Position, r[2], r[3]>>

TransformPoints(m, pts) == [i \in 1..Len(pts) |-> ApplyMatrix(m, pts[i])]

\* the matrix of the actor is the identity matrix
MatrixIsIdentity(p3) ==
    p3.Position = 0 /\ p3.Orientation = 0 /\ p3.Scale = 1

\* mutant of PokeMatrix: the pose is left as it was
PokeMatrix_Keep(p3) == p3

\* vtkProp3D::PokeMatrix(identity): origin, position, scale and orientation
\* are reset and the identity is installed as user matrix, which clears the
\* IsIdentity shortcut flag
PokeMatrix(p3) ==
    [Position |-> 0, Orientation |-> 0, Scale |-> 1, IsIdentity |-> FALSE]

----------------------------------------------------------------------------
(* Points.polydata and the getters of Points.points *)

\* self._polydata after the first two lines of polydata(): a missing handle
\* is fetched from the mapper and kept
FetchPolydata == IF _polydata = None THEN mapperInput ELSE _polydata

\* mutant of polydata: the actor matrix is never applied
polydata_Raw(transformed) ==
    [own |-> TRUE, hasPoints |-> pd.hasPoints, pts |-> pd.pts]

\* polydata(transformed): the object itself (own) when no transform is asked
\* for, when the IsIdentity shortcut flag is set or when there are no points;
\* else a fresh copy with the actor matrix applied
polydata(transformed) ==
    IF transformed /\ ~(prop3D.IsIdentity \/ Len(pd.pts) = 0)
    THEN [own |-> FALSE, hasPoints |-> pd.hasPoints,
          pts |-> TransformPoints(prop3D, pd.pts)]
    ELSE [own |-> TRUE, hasPoints |-> pd.hasPoints, pts |-> pd.pts]

\* points(transformed=...), getter: the coordinate array, or an empty array
\* when the polydata has no vtkPoints
GetPoints(transformed) ==
    LET poly == polydata(transformed)
    IN  IF poly.hasPoints THEN poly.pts ELSE << >>

\* effective coordinates: the pose applied to the raw coordinates
Effective == TransformPoints(prop3D, pd.pts)

----------------------------------------------------------------------------
(* vtkPointLocator / vtkCellLocator as used by Points.closestPoint *)

Dist2(p, q) ==
    (p[1] - q[1]) * (p[1] - q[1]) + (p[2] - q[2]) * (p[2] - q[2])
        + (p[3] - q[3]) * (p[3] - q[3])

\* point ids are 0-based, as in VTK
Ids(pts) == 0..(Len(pts) - 1)
At(pts, id) == pts[id + 1]

Min(a, b) == IF a < b THEN a ELSE b

\* locator.SetDataSet(poly); BuildLocator(): the locator keeps a reference to
\* the data set it was built on: the actor's own polydata (own) or a
\* transformed copy, of which it holds the only snapshot
BuildLocator(poly) == [exists |-> TRUE, own |-> poly.own, pts |-> poly.pts]

\* self.point_locator / self.cell_locator holding None
NoLocator == [exists |-> FALSE, own |-> FALSE, pts |-> << >>]

\* the points a locator answers from: a locator on the actor's own polydata
\* sees that object's present points, any other its snapshot
LocatorPoints(loc) == IF loc.own THEN pd.pts ELSE loc.pts

\* the ids in S by ascending distance from pt; of equidistant points the
\* one of lower id comes first
RECURSIVE SortedOrder(_, _, _)
SortedOrder(S, pt, pts) ==
    IF S = {} THEN << >>
    ELSE LET m == CHOOSE i \in S : \A j \in S :
                      \/ Dist2(At(pts, i), pt) < Dist2(At(pts, j), pt)
                      \/ Dist2(At(pts, i), pt) = Dist2(At(pts, j), pt) /\ i <= j
         IN  <<m>> \o SortedOrder(S \ {m}, pt, pts)

\* FindClosestNPoints(N, pt, list): the ids of the N closest points (of all
\* points when there are fewer), from closest to farthest
FindClosestNPoints(N, pt, pts) ==
    SubSeq(SortedOrder(Ids(pts), pt, pts), 1, Min(N, Len(pts)))

\* the ids of S in ascending order
RECURSIVE Ascending(_)
Ascending(S) ==
    IF S = {} THEN << >>
    ELSE LET m == CHOOSE i \in S : \A j \in S : i <= j
         IN  <<m>> \o Ascending(S \ {m})

\* FindPointsWithinRadius(radius, pt, list): ids of all points within radius
FindPointsWithinRadius(radius, pt, pts) ==
    Ascending({i \in Ids(pts) : Dist2(At(pts, i), pt) <= radius * radius})

\* poly.GetPoints().GetPoint(vi, trgp_): a read past the end of the buffer
\* is not checked by VTK
GetPoint(poly, vi) ==
    IF vi < Len(poly.pts) THEN At(poly.pts, vi) ELSE Garbage

\* truth value of the radius argument: None (NoRadius) and 0 both count as
\* not given
NoRadius == 0 - 1
Truthy(radius) == radius # NoRadius /\ radius # 0

\* closestPoint takes the point-locator branch
UsesPointLocator(N, radius) == N > 1 \/ Truthy(radius)

\* mutant of EnsurePointLocator: a locator is built at every call
EnsurePointLocator_Rebuild(loc, poly) == BuildLocator(poly)

\* self.point_locator after the lazy creation at the head of that branch
EnsurePointLocator(loc, poly) ==
    IF loc = NoLocator THEN BuildLocator(poly) ELSE loc

\* self.cell_locator after the lazy creation at the head of the other branch
EnsureCellLocator(loc, poly) ==
    IF loc = NoLocator THEN BuildLocator(poly) ELSE loc

\* the id list the point-locator branch obtains
LocatorIds(loc, pt, N, radius) ==
    IF N > 1 THEN FindClosestNPoints(N, pt, LocatorPoints(loc))
    ELSE FindPointsWithinRadius(radius, pt, LocatorPoints(loc))

\* value returned by the point-locator branch for one id list
PointBranchValue(poly, ids, returnIds) ==
    IF returnIds THEN ids
    ELSE [k \in 1..Len(ids) |-> GetPoint(poly, ids[k])]

\* cell_locator.FindClosestPoint on a cloud of vertex cells: the id of the
\* vertex nearest to pt
ClosestCell(pt, pts) == SortedOrder(Ids(pts), pt, pts)[1]

----------------------------------------------------------------------------
(* Points.__init__ *)

\* the c argument: whether it is a sequence, its len(), and len(c[0])
\* (0 when c[0] is a number and has no len)
DefaultColor == [seq |-> TRUE, len |-> 3, elem |-> 0]     \* (0.2, 0.2, 0.2)
ColorName == [seq |-> FALSE, len |-> 3, elem |-> 1]       \* "red"
ColorList(k) == [seq |-> TRUE, len |-> k, elem |-> 4]     \* k RGBA tuples

\* the alpha argument: a number, or a list of len k
AlphaNumber == [seq |-> FALSE, len |-> 0]
AlphaList(k) == [seq |-> TRUE, len |-> k]

\* the arguments tried: colours and alphas are given for the list of three
\* points, where len(c) of a single colour equals the number of points
ColorArgs(n) ==
    IF n = 3 THEN {DefaultColor, ColorName, ColorList(n), ColorList(n + 1)}
    ELSE {DefaultColor}
AlphaArgs(n) ==
    IF n = 3 THEN {AlphaNumber, AlphaList(n), AlphaList(n + 1)}
    ELSE {AlphaNumber}

Raised == "raised"
CtorRaised == 0 - 2  \* the constructor raised instead of attaching an array

\* the colour branch of the constructor for n points: CtorRaised, or the number
\* of tuples of the Points_RGBA array it attaches (Absent: no array)
CtorRGBA(n, c, alpha) ==
    IF (c.seq /\ (c.len > 3 \/ c.elem = 4)) \/ alpha.seq
    THEN IF n # c.len THEN CtorRaised
         ELSE IF alpha.seq /\ alpha.len # n THEN CtorRaised
         ELSE IF c.seq
              THEN IF c.elem = 0 THEN CtorRaised ELSE n
              ELSE 0
    ELSE Absent

EmptyPolyData == [hasPoints |-> FALSE, pts |-> << >>, arrays |-> NoArrays]

NewProp3D == [Position |-> 0, Orientation |-> 0, Scale |-> 1, IsIdentity |-> TRUE]

Call(op, status, value, args) ==
    [op |-> op, status |-> status, value |-> value, args |-> args]

NoArgs == [none |-> TRUE]

\* np.stack((pts[0], pts[1], pts[2]), axis=1): the transpose of three rows
Stack3(pts) == [i \in 1..Len(pts[1]) |-> <<pts[1][i], pts[2][i], pts[3][i]>>]

\* np.stack((plist[0], plist[1], np.zeros(len(plist[0]))), axis=1)
Stack2(plist) == [i \in 1..Len(plist[1]) |-> <<plist[1][i], plist[2][i], 0>>]

\* np.c_[np.array(plist), np.zeros(len(plist))]: a column of zeros appended
WithZeros(plist) == [i \in 1..Len(plist) |-> <<plist[i][1], plist[i][2], 0>>]

\* the constructor's reading of three or two rows of more than 3 entries as
\* [all_x, all_y, all_z] or [all_x, all_y]
CtorStacked(plist) ==
    IF Len(plist) = 3 /\ Len(plist[1]) > 3 THEN Stack3(plist)
    ELSE IF Len(plist) = 2 /\ Len(plist[1]) > 3 THEN Stack2(plist)
    ELSE plist

\* the point array the constructor builds the polydata from
CtorArray(plist) ==
    IF Len(plist) > 0 /\ Len(CtorStacked(plist)[1]) = 2
    THEN WithZeros(CtorStacked(plist))
    ELSE CtorStacked(plist)

\* no second object yet
NoOther ==
    [exists |-> FALSE, role |-> "none", shared |-> FALSE,
     pd |-> EmptyPolyData, prop3D |-> NewProp3D,
     point_locator |-> NoLocator, cell_locator |-> NoLocator]

\* self.info without the key "variances"
NoInfo == [set |-> FALSE, variances |-> << >>]

\* Points(): no input object
InitEmpty ==
    /\ pd = EmptyPolyData
    /\ _polydata = PD
    /\ mapperInput = None

\* Points(plist, c, alpha): a sequence of points
InitSequence ==
    \E plist \in CoordLists :
      \E c \in ColorArgs(Len(plist)), alpha \in AlphaArgs(Len(plist)) :
        /\ CtorRGBA(Len(plist), c, alpha) # CtorRaised
        /\ pd = [hasPoints |-> TRUE, pts |-> CtorArray(plist),
                 arrays |-> [NoArrays EXCEPT
                     !["Points_RGBA"] = CtorRGBA(Len(plist), c, alpha)]]
        /\ _polydata = None
        /\ mapperInput = PD

\* Points(vtkPolyData)
InitPolyData ==
    \E plist \in {Prefix(PatternA, MaxPts), Prefix(PatternB, MaxPts - 1)} :
        /\ pd = [hasPoints |-> TRUE, pts |-> plist, arrays |-> NoArrays]
        /\ _polydata = PD
        /\ mapperInput = PD

Init ==
    /\ InitEmpty \/ InitSequence \/ InitPolyData
    /\ prop3D = NewProp3D
    /\ point_locator = NoLocator
    /\ cell_locator = NoLocator
    /\ info = NoInfo
    /\ other = NoOther
    /\ ret = Call("__init__", "ok", << >>, NoArgs)
    /\ calls = 0

\* colours and alphas given with a list of n points: a single colour or one
\* per point, a number or one alpha per point, and lists one too long
CtorColors(n) == {DefaultColor, ColorName, ColorList(n), ColorList(n + 1)}
CtorAlphas(n) == {AlphaNumber, AlphaList(n), AlphaList(n + 1)}

\* before Points(...) is called there is no object
InitNone ==
    /\ pd = EmptyPolyData
    /\ _polydata = None
    /\ mapperInput = None
    /\ prop3D = NewProp3D
    /\ point_locator = NoLocator
    /\ cell_locator = NoLocator
    /\ info = NoInfo
    /\ other = NoOther
    /\ ret = Call("none", "ok", << >>, NoArgs)
    /\ calls = 0

\* Points(plist, c, alpha): the object is built, or the constructor raises
\* and there is none
construct ==
    \E plist \in CoordLists :
      \E c \in CtorColors(Len(plist)), alpha \in CtorAlphas(Len(plist)) :
        LET rgba == CtorRGBA(Len(plist), c, alpha)
        IN  /\ ret.op = "none"
            /\ pd' = IF rgba = CtorRaised THEN EmptyPolyData
                     ELSE [hasPoints |-> TRUE, pts |-> CtorArray(plist),
                           arrays |-> [NoArrays EXCEPT !["Points_RGBA"] = rgba]]
            /\ mapperInput' = IF rgba = CtorRaised THEN None ELSE PD
            /\ ret' = Call("__init__", IF rgba = CtorRaised THEN Raised ELSE "ok",
                           << >>, [n |-> Len(plist), c |-> c, alpha |-> alpha])
            /\ UNCHANGED <<_polydata, prop3D, point_locator, cell_locator, info,
                           other, calls>>

\* there is an object to call
Built == ret.op # "none" /\ ~(ret.op = "__init__" /\ ret.status = Raised)

----------------------------------------------------------------------------
(* Pose changes: the vtkProp3D setters of the actor *)

\* one more call is made on the object; a call on one object does not
\* reach into the record of the other
Step == calls < MaxCalls /\ calls' = calls + 1 /\ other' = other

\* a call that is not a smoothing pass: self.info is not written
StepOther == Step /\ info' = info

Positions == {0, 1}
Scales == {1, 2}
Orientations == {0, 180}

\* a vtkProp3D setter stores the value and clears the IsIdentity flag, and
\* does neither when the value is the one already held
SetPose(field, v) ==
    /\ StepOther
    /\ prop3D[field] # v
    /\ prop3D' = [prop3D EXCEPT ![field] = v, !.IsIdentity = FALSE]
    /\ ret' = Call("SetPose", "ok", << >>, [field |-> field, v |-> v])
    /\ UNCHANGED <<pd, _polydata, mapperInput, point_locator, cell_locator>>

SetPosition == \E x \in Positions : SetPose("Position", x)
SetScale == \E k \in Scales : SetPose("Scale", k)
SetOrientation == \E o \in Orientations : SetPose("Orientation", o)

----------------------------------------------------------------------------
(* Points.points *)

\* points(pts=None, transformed): the getter
points_get ==
    \E transformed \in BOOLEAN :
        /\ StepOther
        /\ FetchPolydata # None
        /\ _polydata' = FetchPolydata
        /\ ret' = Call("points_get", "ok", GetPoints(transformed),
                       [transformed |-> transformed])
        /\ UNCHANGED <<pd, mapperInput, prop3D, point_locator, cell_locator>>

\* points(i, transformed): one index; there is no vtkPoints to index in an
\* empty polydata, and an index past the end is an IndexError
points_index ==
    \E i \in {0, MaxPts}, transformed \in {TRUE} :
        /\ StepOther
        /\ FetchPolydata # None
        /\ _polydata' = FetchPolydata
        /\ LET poly == polydata(transformed)
           IN  ret' = IF poly.hasPoints /\ i < Len(poly.pts)
                      THEN Call("points_index", "ok", At(poly.pts, i),
                                [i |-> i, transformed |-> transformed])
                      ELSE Call("points_index", Raised, << >>,
                                [i |-> i, transformed |-> transformed])
        /\ UNCHANGED <<pd, mapperInput, prop3D, point_locator, cell_locator>>

\* the array the setter hands to vtkPoints.SetData
SetterArray(pts) ==
    IF Len(pts) = 3 /\ Len(pts[1]) # 3 THEN Stack3(pts) ELSE pts

\* vtkPoints::SetData takes an array of 3 components and refuses any other,
\* keeping the data it has
SetData(old, arr) == IF Len(arr[1]) = 3 THEN arr ELSE old

\* outcome of the setter branch of points(pts) on the present state:
\* pts[0] of an empty list, self._polydata None and GetPoints() None raise
SetterStatus(pts) ==
    IF Len(pts) = 0 \/ _polydata = None \/ ~pd.hasPoints THEN Raised ELSE "ok"

\* the polydata after the setter
SetterPolyData(pts) ==
    IF SetterStatus(pts) = "ok"
    THEN [pd EXCEPT !.pts = SetData(pd.pts, SetterArray(pts))]
    ELSE pd

\* the pose after the setter
SetterProp3D(pts) ==
    IF SetterStatus(pts) = "ok" THEN PokeMatrix(prop3D) ELSE prop3D

\* points(pts): the setter
SetterCall(pts) ==
    /\ StepOther
    /\ pd' = SetterPolyData(pts)
    /\ prop3D' = SetterProp3D(pts)
    /\ ret' = Call("points_set", SetterStatus(pts), << >>,
                   [pts |-> pts, was |-> prop3D])
    /\ UNCHANGED <<_polydata, mapperInput, point_locator, cell_locator>>

\* the setter called with N x 3 coordinates
points_set == \E pts \in CoordLists : SetterCall(pts)

\* arrays of other shapes: two and three points of dimension 2, two points
\* of dimension 4
ShapedLists ==
    {<<<<1, 2>>, <<3, 4>>>>,
     <<<<1, 2>>, <<3, 4>>, <<5, 6>>>>,
     <<<<1, 2, 3, 4>>, <<5, 6, 7, 8>>>>}

\* the setter called with an array of another shape
points_set_shaped == \E pts \in ShapedLists : SetterCall(pts)

\* the same coordinates in both layouts: MaxPts points as [all_x, all_y,
\* all_z] and as a list of points; and three points of dimension 2
AllX == [i \in 1..MaxPts |-> i]
AllY == [i \in 1..MaxPts |-> 0 - i]
AllZ == [i \in 1..MaxPts |-> MaxPts - i]
LayoutLists ==
    {<<AllX, AllY, AllZ>>,
     Stack3(<<AllX, AllY, AllZ>>),
     <<<<1, 2>>, <<3, 4>>, <<5, 6>>>>}

\* Points(plist) for a list in either layout
InitLayouts ==
    \E plist \in LayoutLists :
        /\ pd = [hasPoints |-> TRUE, pts |-> CtorArray(plist),
                 arrays |-> NoArrays]
        /\ _polydata = None
        /\ mapperInput = PD
        /\ prop3D = NewProp3D
        /\ point_locator = NoLocator
        /\ cell_locator = NoLocator
        /\ info = NoInfo
        /\ other = NoOther
        /\ ret = Call("__init__", "ok", << >>, [plist |-> plist])
        /\ calls = 0

\* the setter called with a list in either layout
points_set_layout == \E pts \in LayoutLists : SetterCall(pts)

----------------------------------------------------------------------------
(* Points.closestPoint *)

QueryPoints == {Vec(2)}
BigN == MaxPts + 1
Ns == {1, 2, BigN}
Radii == {NoRadius, 3}

\* the calls made: ids are asked for in the plain queries for the nearest
\* and the two nearest points, a radius is given with N of 1 and 2
AskedFor(N, radius, returnIds) ==
    \/ radius = NoRadius /\ ~returnIds
    \/ radius = NoRadius /\ N < BigN
    \/ N < BigN /\ ~returnIds

Crashed == "crashed"

QueryArgs(pt, N, radius, returnIds) ==
    [pt |-> pt, N |-> N, radius |-> radius, returnIds |-> returnIds]

\* the point-locator branch. A vtkPointLocator built on a data set without
\* points has no bucket table: a query on it finds nothing or faults.
PointBranchResults(loc, poly, pt, N, radius, returnIds) ==
    IF Len(LocatorPoints(loc)) = 0
    THEN {Call("closestPoint", "ok", << >>, QueryArgs(pt, N, radius, returnIds)),
          Call("closestPoint", Crashed, << >>, QueryArgs(pt, N, radius, returnIds))}
    ELSE {Call("closestPoint", "ok",
               PointBranchValue(poly, LocatorIds(loc, pt, N, radius), returnIds),
               QueryArgs(pt, N, radius, returnIds))}

\* the cell-locator branch: trgp = [0, 0, 0] and cid = 0 are what is returned
\* when the locator, built on a data set without cells, finds nothing
CellBranchResults(loc, pt, N, radius, returnIds) ==
    IF Len(LocatorPoints(loc)) = 0
    THEN {Call("closestPoint", "ok", IF returnIds THEN 0 ELSE Vec(0),
               QueryArgs(pt, N, radius, returnIds)),
          Call("closestPoint", Crashed, << >>, QueryArgs(pt, N, radius, returnIds))}
    ELSE {Call("closestPoint", "ok",
               IF returnIds THEN ClosestCell(pt, LocatorPoints(loc))
               ELSE At(LocatorPoints(loc), ClosestCell(pt, LocatorPoints(loc))),
               QueryArgs(pt, N, radius, returnIds))}

closestPoint ==
    \E pt \in QueryPoints, N \in Ns, radius \in Radii, returnIds \in BOOLEAN :
        /\ StepOther
        /\ AskedFor(N, radius, returnIds)
        /\ FetchPolydata # None
        /\ _polydata' = FetchPolydata
        /\ IF UsesPointLocator(N, radius)
           THEN /\ point_locator' = EnsurePointLocator(point_locator, polydata(TRUE))
                /\ cell_locator' = cell_locator
                /\ ret' \in PointBranchResults(
                       EnsurePointLocator(point_locator, polydata(TRUE)),
                       polydata(TRUE), pt, N, radius, returnIds)
           ELSE /\ cell_locator' = EnsureCellLocator(cell_locator, polydata(TRUE))
                /\ point_locator' = point_locator
                /\ ret' \in CellBranchResults(
                       EnsureCellLocator(cell_locator, polydata(TRUE)),
                       pt, N, radius, returnIds)
        /\ UNCHANGED <<pd, mapperInput, prop3D>>

----------------------------------------------------------------------------
(* Points.clone *)

\* mutant of DeepCopy: the polydata object itself is handed on
DeepCopy_Shallow(poly) == [shared |-> TRUE, data |-> poly]

\* polyCopy.DeepCopy(poly): a new vtkPolyData with the same content
DeepCopy(poly) == [shared |-> FALSE, data |-> poly]

\* the pose of the new actor after cloned.SetScale, SetOrientation and
\* SetPosition with the values of self: a setter that is given the value the
\* actor already has changes nothing, so the IsIdentity flag stays set when
\* all three are the defaults
ClonedProp3D(p3) ==
    [Position |-> p3.Position, Orientation |-> p3.Orientation,
     Scale |-> p3.Scale, IsIdentity |-> MatrixIsIdentity(p3)]

\* the record of the object the later calls are not made on
OtherObject(role, shared, poly, p3, ploc, cloc) ==
    [exists |-> TRUE, role |-> role, shared |-> shared, pd |-> poly,
     prop3D |-> p3, point_locator |-> ploc, cell_locator |-> cloc]

\* clone(): the copy is a Points built on a deep copy of self.polydata(False)
\* and given the pose of self; it has no locator. The later calls are made
\* on the original (onOriginal) or on the copy.
clone ==
    \E onOriginal \in BOOLEAN :
        /\ calls < MaxCalls
        /\ calls' = calls + 1
        /\ ~other.exists
        /\ FetchPolydata # None
        /\ pd' = pd
        /\ mapperInput' = IF onOriginal THEN mapperInput ELSE PD
        /\ _polydata' = IF onOriginal THEN FetchPolydata ELSE PD
        /\ IF onOriginal
           THEN /\ other' = OtherObject("clone", DeepCopy(pd).shared,
                                        DeepCopy(pd).data, ClonedProp3D(prop3D),
                                        NoLocator, NoLocator)
                /\ UNCHANGED <<prop3D, point_locator, cell_locator, info>>
           ELSE /\ other' = OtherObject("original", DeepCopy(pd).shared, pd,
                                        prop3D, point_locator, cell_locator)
                /\ prop3D' = ClonedProp3D(prop3D)
                /\ point_locator' = NoLocator
                /\ cell_locator' = NoLocator
                /\ info' = NoInfo
        /\ ret' = Call("clone", "ok", << >>, [onOriginal |-> onOriginal])

\* the polydata of the other object: the very object of this one when the
\* two share it
OtherPolyData == IF other.shared THEN pd ELSE other.pd

----------------------------------------------------------------------------
(* Operations that install a new vtkPolyData through Points._update *)

\* a locator built on the polydata that _update is about to replace keeps
\* that object alive and goes on answering from it
Detach(loc) ==
    IF loc.exists /\ loc.own THEN [loc EXCEPT !.own = FALSE, !.pts = pd.pts]
    ELSE loc

\* _update(polydata): rebinds self._polydata and the mapper input, nothing else
_update(polydata_) ==
    /\ pd' = polydata_
    /\ _polydata' = PD
    /\ mapperInput' = PD
    /\ point_locator' = Detach(point_locator)
    /\ cell_locator' = Detach(cell_locator)

\* output of a vtkTransformPolyDataFilter: the points of its input mapped,
\* the point data passed on; no output without input points
FilterOutput(hasInput, hasPoints, pts, arrays) ==
    IF hasInput /\ hasPoints
    THEN [hasPoints |-> TRUE, pts |-> pts, arrays |-> arrays]
    ELSE EmptyPolyData

Translate1 == [Position |-> 1, Orientation |-> 0, Scale |-> 1]
Scale2 == [Position |-> 0, Orientation |-> 0, Scale |-> 2]
Transforms == {Translate1, Scale2}

\* mutant of AppliedPolyData: the filter is fed the raw polydata
AppliedPolyData_Raw(T) ==
    FilterOutput(TRUE, pd.hasPoints,
                 TransformPoints(T, polydata(FALSE).pts), pd.arrays)

\* the polydata applyTransform(T) installs
AppliedPolyData(T) ==
    FilterOutput(TRUE, pd.hasPoints,
                 TransformPoints(T, polydata(TRUE).pts), pd.arrays)

\* the pose applyTransform leaves
AppliedProp3D == PokeMatrix(prop3D)

applyTransform ==
    \E T \in Transforms :
        /\ StepOther
        /\ FetchPolydata # None
        /\ InRange(AppliedPolyData(T).pts)
        /\ prop3D' = AppliedProp3D
        /\ _update(AppliedPolyData(T))
        /\ ret' = Call("applyTransform", "ok", << >>, [T |-> T, was |-> prop3D])

\* tr.Scale(sx, sy, sz) of mirror(axis)
MirrorPoint(axis, p) ==
    IF p = Garbage THEN Garbage
    ELSE IF axis = "x" THEN <<-p[1], p[2], p[3]>> ELSE p

\* mirror(axis) feeds self._polydata itself, raw and possibly still None,
\* to the filter and keeps the pose
MirroredPolyData(axis) ==
    FilterOutput(_polydata # None, pd.hasPoints,
                 [i \in 1..Len(pd.pts) |-> MirrorPoint(axis, pd.pts[i])],
                 pd.arrays)

mirror ==
    \E axis \in {"x"} :
        /\ StepOther
        /\ _update(MirroredPolyData(axis))
        /\ ret' = Call("mirror", "ok", << >>, [axis |-> axis])
        /\ UNCHANGED prop3D

----------------------------------------------------------------------------
(* Operations that edit the polydata in place *)

Noises == {1}

AddNoise(pts, d) ==
    [i \in 1..Len(pts) |->
        IF pts[i] = Garbage THEN Garbage
        ELSE <<pts[i][1] + d, pts[i][2], pts[i][3]>>]

\* the polydata after pointGaussNoise: the pose-applied coordinates plus the
\* noise become the stored points, and a GaussNoise array is added
NoisyPolyData(d) ==
    [hasPoints |-> TRUE, pts |-> AddNoise(GetPoints(TRUE), d),
     arrays |-> [pd.arrays EXCEPT !["GaussNoise"] = Len(GetPoints(TRUE))]]

\* pointGaussNoise(sigma): with no vtkPoints the sum of the empty coordinate
\* array and the (0, 3) noise array raises
pointGaussNoise ==
    \E d \in Noises :
        /\ StepOther
        /\ FetchPolydata # None
        /\ _polydata' = FetchPolydata
        /\ IF pd.hasPoints
           THEN /\ InRange(NoisyPolyData(d).pts)
                /\ pd' = NoisyPolyData(d)
                /\ ret' = Call("pointGaussNoise", "ok", << >>, [d |-> d])
           ELSE /\ pd' = pd
                /\ ret' = Call("pointGaussNoise", Raised, << >>, [d |-> d])
        /\ UNCHANGED <<mapperInput, prop3D, point_locator, cell_locator>>

\* pointColors(input_array) with a sequence of k scalars: a length that
\* differs from the number of points is reported in print and skipped
ColoredArrays(k) ==
    IF k # Len(pd.pts) THEN pd.arrays
    ELSE [pd.arrays EXCEPT !["PointScalars"] = k]

pointColors ==
    \E k \in {Len(pd.pts), Len(pd.pts) + 1} :
        /\ StepOther
        /\ FetchPolydata # None
        /\ _polydata' = FetchPolydata
        /\ pd' = [pd EXCEPT !.arrays = ColoredArrays(k)]
        /\ ret' = Call("pointColors", "ok", << >>, [k |-> k])
        /\ UNCHANGED <<mapperInput, prop3D, point_locator, cell_locator>>

----------------------------------------------------------------------------
(* Points.smoothMLS1D and Points.smoothMLS2D *)

\* the smoothing factor f, in tenths
SmoothFs == {2}
SmoothRadii == {NoRadius, 4}

\* mutant of Ncp1D: the quotient is rounded to the nearest integer
Ncp1D_Round(ncoords, radius, fTenths) ==
    IF Truthy(radius) THEN 0
    ELSE IF (ncoords * fTenths + 50) \div 100 < 5 THEN 5
         ELSE (ncoords * fTenths + 50) \div 100

\* Ncp of smoothMLS1D: int(ncoords * f / 10), raised to 5 when below
Ncp1D(ncoords, radius, fTenths) ==
    IF Truthy(radius) THEN 0
    ELSE IF (ncoords * fTenths) \div 100 < 5 THEN 5
         ELSE (ncoords * fTenths) \div 100

\* mutant of Ncp2D: the count is made of f whether a radius is given or not
Ncp2D_Count(ncoords, radius, fTenths) ==
    IF (ncoords * fTenths) \div 1000 < 5 THEN 5
    ELSE (ncoords * fTenths) \div 1000

\* Ncp of smoothMLS2D: int(ncoords * f / 100), raised to 5 when below
Ncp2D(ncoords, radius, fTenths) ==
    IF Truthy(radius) THEN 0
    ELSE IF (ncoords * fTenths) \div 1000 < 5 THEN 5
         ELSE (ncoords * fTenths) \div 1000

\* self.point_locator during and after the loop: the first closestPoint call
\* of the loop creates it when there is none
LoopLocator(coords) ==
    IF Len(coords) = 0 THEN point_locator
    ELSE EnsurePointLocator(point_locator, polydata(TRUE))

\* the ids one closestPoint(p, N=Ncp, radius=radius) call of the loop gets
\* from the locator, as a set: the loop takes the mean and the singular
\* vectors of the neighbourhood, which do not depend on its order, and of
\* several equidistant points the one of lowest id is taken first
LoopIds(lpts, p, N, radius) ==
    IF N > 1
    THEN IF N >= Len(lpts) THEN Ids(lpts)
         ELSE {i \in Ids(lpts) :
                  Cardinality({j \in Ids(lpts) :
                      \/ Dist2(At(lpts, j), p) < Dist2(At(lpts, i), p)
                      \/ Dist2(At(lpts, j), p) = Dist2(At(lpts, i), p) /\ j < i})
                      < N}
    ELSE {i \in Ids(lpts) : Dist2(At(lpts, i), p) <= radius * radius}

\* the neighbourhood of p: the coordinates, read from poly, of those ids
Neighbourhood(lpts, poly, p, N, radius) ==
    {GetPoint(poly, vi) : vi \in LoopIds(lpts, p, N, radius)}

\* len(points) of the neighbourhood of p
NeighbourCount(lpts, p, N, radius) == Cardinality(LoopIds(lpts, p, N, radius))

\* smoothMLS1D skips a point with fewer than 4 neighbours
Skip1D(n, radius) == n < 4

\* smoothMLS2D skips a point with fewer than 5 neighbours, under radius
\* search only
Skip2D(n, radius) == Truthy(radius) /\ n < 5

\* the projection of p on the line (1D) or plane (2D) fitted to its
\* neighbourhood: p itself when p and the neighbourhood lie on the x axis,
\* as every point of the model does; not determined once a neighbour or p
\* was read from outside a buffer
Project(p, nb) ==
    IF p = Garbage \/ Garbage \in nb THEN Garbage ELSE p

\* ids (0-based) of the points of coords the loop of smoothMLS1D keeps
Kept1D(coords, lpts, N, radius) ==
    SelectSeq([k \in 1..Len(coords) |-> k - 1],
              LAMBDA i : ~Skip1D(NeighbourCount(lpts, At(coords, i), N, radius),
                                 radius))

\* ids (0-based) of the points of coords the loop of smoothMLS2D keeps
Kept2D(coords, lpts, N, radius) ==
    SelectSeq([k \in 1..Len(coords) |-> k - 1],
              LAMBDA i : ~Skip2D(NeighbourCount(lpts, At(coords, i), N, radius),
                                 radius))

\* newline / newpts: the projections of the kept points, in loop order
Smoothed(coords, kept, lpts, poly, N, radius) ==
    [k \in 1..Len(kept) |->
        Project(At(coords, kept[k]),
                Neighbourhood(lpts, poly, At(coords, kept[k]), N, radius))]

\* the residual of a neighbourhood: dd[1] + dd[2] (1D) or dd[2] (2D), which
\* is 0 for points of the x axis; not determined once a neighbour was read
\* from outside a buffer
GarbageResidual == 10 * MaxCoord
Residual(nb) == IF Garbage \in nb THEN GarbageResidual ELSE 0

\* mutant of Variances: a residual is appended for every input point,
\* skipped or not
Variances_PerInput(coords, kept, lpts, poly, N, radius) ==
    [k \in 1..Len(coords) |->
        Residual(Neighbourhood(lpts, poly, coords[k], N, radius))]

\* variances: the residuals of the kept points, in loop order
Variances(coords, kept, lpts, poly, N, radius) ==
    [k \in 1..Len(kept) |->
        Residual(Neighbourhood(lpts, poly, At(coords, kept[k]), N, radius))]

\* the loop of smoothMLS1D raises nowhere: a neighbourhood it does not skip
\* has 4 rows and so 3 singular values
LoopRaises1D(coords, lpts, N, radius) == FALSE

\* the loop of smoothMLS2D raises on dd[2] when a neighbourhood it does not
\* skip has fewer than 3 rows, the svd giving one singular value per row
LoopRaises2D(coords, lpts, N, radius) ==
    \E i \in 1..Len(coords) :
        /\ ~Skip2D(NeighbourCount(lpts, coords[i], N, radius), radius)
        /\ NeighbourCount(lpts, coords[i], N, radius) < 3

\* return self.points(newline): the setter, entered after self.points() has
\* fetched self._polydata; an empty newline raises on newline[0]
SmoothStatus(new) == IF Len(new) = 0 \/ ~pd.hasPoints THEN Raised ELSE "ok"

\* the arguments f (in tenths) and radius, and the count Ncp made of them
SmoothArgs(N, fTenths, radius) == [f |-> fTenths, radius |-> radius, N |-> N]

\* the effect of either smoother: when the loop raised, only the locator it
\* created is left behind; else self.info["variances"] is written and the
\* setter is called. ret.value lists, per kept point, the id its input point
\* had
SmoothApply(op, kept, new, variances, raised, N, fTenths, radius) ==
    LET status == IF raised THEN Raised ELSE SmoothStatus(new)
    IN  /\ InRange(new)
        /\ _polydata' = FetchPolydata
        /\ point_locator' = LoopLocator(GetPoints(TRUE))
        /\ info' = IF raised THEN info
                   ELSE [set |-> TRUE, variances |-> variances]
        /\ pd' = IF status = "ok" THEN [pd EXCEPT !.pts = new] ELSE pd
        /\ prop3D' = IF status = "ok" THEN PokeMatrix(prop3D) ELSE prop3D
        /\ ret' = Call(op, status, kept, SmoothArgs(N, fTenths, radius))
        /\ UNCHANGED <<mapperInput, cell_locator>>

\* smoothMLS1D(f, radius)
Smooth1D(fTenths, radius) ==
    /\ Step
    /\ FetchPolydata # None
    /\ LET coords == GetPoints(TRUE)
           poly == polydata(TRUE)
           lpts == LocatorPoints(LoopLocator(coords))
           N == Ncp1D(Len(coords), radius, fTenths)
           kept == Kept1D(coords, lpts, N, radius)
           new == Smoothed(coords, kept, lpts, poly, N, radius)
       IN  SmoothApply("smoothMLS1D", kept, new,
                       Variances(coords, kept, lpts, poly, N, radius),
                       LoopRaises1D(coords, lpts, N, radius),
                       N, fTenths, radius)

\* smoothMLS2D(f, radius)
Smooth2D(fTenths, radius) ==
    /\ Step
    /\ FetchPolydata # None
    /\ LET coords == GetPoints(TRUE)
           poly == polydata(TRUE)
           lpts == LocatorPoints(LoopLocator(coords))
           N == Ncp2D(Len(coords), radius, fTenths)
           kept == Kept2D(coords, lpts, N, radius)
           new == Smoothed(coords, kept, lpts, poly, N, radius)
       IN  SmoothApply("smoothMLS2D", kept, new,
                       Variances(coords, kept, lpts, poly, N, radius),
                       LoopRaises2D(coords, lpts, N, radius),
                       N, fTenths, radius)

smoothMLS1D ==
    \E fTenths \in SmoothFs, radius \in SmoothRadii : Smooth1D(fTenths, radius)

smoothMLS2D ==
    \E fTenths \in SmoothFs, radius \in SmoothRadii : Smooth2D(fTenths, radius)

\* smoothing factors over a wide range: 0.2, 11 and 110
WideFs == {2, 110, 1100}

\* the smoothers called with any of these factors
smoothMLS1D_f ==
    \E fTenths \in WideFs, radius \in SmoothRadii : Smooth1D(fTenths, radius)

smoothMLS2D_f ==
    \E fTenths \in WideFs, radius \in SmoothRadii : Smooth2D(fTenths, radius)

----------------------------------------------------------------------------
(* fitLine, fitPlane, fitSphere, fitEllipsoid *)

\* coordinate lists handed to the fitters: none, one point, the same point
\* twice, three points, four points of one plane, four and five points that
\* are not in a plane, and three points of one line, evenly and unevenly
\* spaced
FitLists ==
    {<< >>,
     <<<<0, 0, 0>>, <<1, 1, 0>>, <<2, 2, 0>>>>,
     <<<<0, 0, 0>>, <<1, 0 - 1, 0>>, <<5, 0 - 5, 0>>>>,
     <<<<1, 2, 3>>>>,
     <<<<1, 2, 3>>, <<1, 2, 3>>>>,
     <<<<0, 0, 0>>, <<1, 0, 0>>, <<0, 1, 0>>>>,
     <<<<0, 0, 0>>, <<1, 0, 0>>, <<0, 1, 0>>, <<1, 1, 0>>>>,
     <<<<0, 0, 0>>, <<1, 0, 0>>, <<0, 1, 0>>, <<0, 0, 1>>>>,
     <<<<0, 0, 0>>, <<1, 0, 0>>, <<0, 1, 0>>, <<1, 1, 0>>, <<0, 0, 2>>>>}

\* what a fitter is called with: the Points object, a numpy array or a list
FitInputs ==
    {[kind |-> "Points", pts |-> GetPoints(TRUE)]}
        \cup {[kind |-> k, pts |-> l] : k \in {"ndarray", "list"}, l \in FitLists}

\* the value a fitter returns when it gives up
FitNone == [kind |-> "None"]

\* the effect of a fitter call: isinstance(points, Points) reads
\* points.points(), which fetches the polydata handle; nothing else changes
FitApply(op, input, status, value) ==
    /\ StepOther
    /\ _polydata' = IF input.kind = "Points" THEN FetchPolydata ELSE _polydata
    /\ ret' = Call(op, status, value, input)
    /\ UNCHANGED <<pd, mapperInput, prop3D, point_locator, cell_locator>>

\* vectors of three integers
Sub(p, q) == <<p[1] - q[1], p[2] - q[2], p[3] - q[3]>>
Dot(p, q) == p[1] * q[1] + p[2] * q[2] + p[3] * q[3]
Cross(p, q) ==
    <<p[2] * q[3] - p[3] * q[2], p[3] * q[1] - p[1] * q[3],
      p[1] * q[2] - p[2] * q[1]>>
Times(k, p) == <<k * p[1], k * p[2], k * p[3]>>

\* data.sum(axis=0): n times datamean, which keeps the centre an integer
RECURSIVE ColumnSums(_)
ColumnSums(pts) ==
    IF Len(pts) = 0 THEN <<0, 0, 0>>
    ELSE LET r == ColumnSums(Tail(pts))
         IN  <<pts[1][1] + r[1], pts[1][2] + r[2], pts[1][3] + r[3]>>

\* smallest and largest entry of column k
ColMin(pts, k) ==
    CHOOSE v \in {pts[i][k] : i \in 1..Len(pts)} :
        \A i \in 1..Len(pts) : v <= pts[i][k]
ColMax(pts, k) ==
    CHOOSE v \in {pts[i][k] : i \in 1..Len(pts)} :
        \A i \in 1..Len(pts) : v >= pts[i][k]

\* points.min(axis=0) and points.max(axis=0): the corners of the bounding box
AxisMin(pts) == <<ColMin(pts, 1), ColMin(pts, 2), ColMin(pts, 3)>>
AxisMax(pts) == <<ColMax(pts, 1), ColMax(pts, 2), ColMax(pts, 3)>>

\* all points lie on one line through the first
Collinear(pts) ==
    \A i, j \in 1..Len(pts) :
        Cross(Sub(pts[i], pts[1]), Sub(pts[j], pts[1])) = <<0, 0, 0>>

\* an integer vector along the first right singular vector of the centred
\* data, for collinear data: the step from the first point to the first one
\* that differs from it; the x axis when the centred data are all zero
LineDirection(pts) ==
    IF \A i \in 1..Len(pts) : pts[i] = pts[1] THEN <<1, 0, 0>>
    ELSE LET j == CHOOSE i \in 1..Len(pts) :
                      /\ pts[i] # pts[1]
                      /\ \A k \in 1..(i - 1) : pts[k] = pts[1]
         IN  Sub(pts[j], pts[1])

\* the sign vv[0] comes out of np.linalg.svd with is not set by the data
SvdSigns == {1, 0 - 1}

\* fitLine: the svd of an empty array raises, and so does points.min on a
\* list; nothing else is tested before the Line is built
FitLineStatus(input) ==
    IF Len(input.pts) = 0 \/ input.kind = "list" THEN Raised ELSE "ok"

\* the Line of fitLine, in exact integers: center is n * datamean, a2 and b2
\* are the squares of n * a and n * b, and slope is sign times an integer
\* vector along vv, so that p1 = datamean - a * vv and p2 = datamean + b * vv.
\* The direction of data that are not collinear is not computed.
FitLineValue(input, sign) ==
    IF FitLineStatus(input) = "ok"
    THEN LET n == Len(input.pts)
             center == ColumnSums(input.pts)
             lo == Sub(Times(n, AxisMin(input.pts)), center)
             hi == Sub(Times(n, AxisMax(input.pts)), center)
         IN  [kind |-> "Line", n |-> n, center |-> center,
              a2 |-> Dot(lo, lo), b2 |-> Dot(hi, hi),
              collinear |-> Collinear(input.pts),
              slope |-> IF Collinear(input.pts)
                        THEN Times(sign, LineDirection(input.pts))
                        ELSE <<0, 0, 0>>]
    ELSE FitNone

fitLine ==
    \E input \in FitInputs, sign \in SvdSigns :
        FitApply("fitLine", input, FitLineStatus(input),
                 FitLineValue(input, sign))

\* fitPlane: as fitLine, and dd[2] is an IndexError when the svd has fewer
\* than three singular values
FitPlaneStatus(input) ==
    IF Len(input.pts) < 3 \/ input.kind = "list" THEN Raised ELSE "ok"

FitPlaneValue(input) ==
    IF FitPlaneStatus(input) = "ok"
    THEN [kind |-> "Plane", n |-> Len(input.pts)]
    ELSE FitNone

fitPlane ==
    \E input \in FitInputs :
        FitApply("fitPlane", input, FitPlaneStatus(input), FitPlaneValue(input))

\* the rows [2x, 2y, 2z, 1] of the matrix A of fitSphere
SphereMatrix(coords) ==
    [i \in 1..Len(coords) |->
        <<2 * coords[i][1], 2 * coords[i][2], 2 * coords[i][3], 1>>]

Det2(a, b, c, d) == a * d - b * c

\* determinant of the rows r1, r2, r3 restricted to the columns c
Det3(r1, r2, r3, c) ==
    r1[c[1]] * Det2(r2[c[2]], r2[c[3]], r3[c[2]], r3[c[3]])
    - r1[c[2]] * Det2(r2[c[1]], r2[c[3]], r3[c[1]], r3[c[3]])
    + r1[c[3]] * Det2(r2[c[1]], r2[c[2]], r3[c[1]], r3[c[2]])

Det4(r1, r2, r3, r4) ==
    r1[1] * Det3(r2, r3, r4, <<2, 3, 4>>)
    - r1[2] * Det3(r2, r3, r4, <<1, 3, 4>>)
    + r1[3] * Det3(r2, r3, r4, <<1, 2, 4>>)
    - r1[4] * Det3(r2, r3, r4, <<1, 2, 3>>)

\* the rank np.linalg.lstsq reports for a matrix of four columns is 4 exactly
\* when four of its rows are independent
RankIs4(A) ==
    \E i, j, k, l \in 1..Len(A) :
        i < j /\ j < k /\ k < l /\ Det4(A[i], A[j], A[k], A[l]) # 0

\* fitSphere: A[:, :-1] = coords * 2 raises on an array without rows
FitSphereStatus(input) == IF Len(input.pts) = 0 THEN Raised ELSE "ok"

FitSphereValue(input) ==
    IF FitSphereStatus(input) = "ok" /\ RankIs4(SphereMatrix(input.pts))
    THEN [kind |-> "Sphere", n |-> Len(input.pts)]
    ELSE FitNone

fitSphere ==
    \E input \in FitInputs :
        FitApply("fitSphere", input, FitSphereStatus(input),
                 FitSphereValue(input))

\* mutant of FitEllipsoidValue: an ellipsoid is built from three points on
FitEllipsoidValue_From3(input) ==
    IF Len(input.pts) < 3
    THEN FitNone
    ELSE [kind |-> "Ellipsoid", nr_of_points |-> Len(input.pts)]

\* fitEllipsoid: None below four points, else the ellipsoid with
\* nr_of_points = P.shape[0]
FitEllipsoidValue(input) ==
    IF Len(input.pts) < 4
    THEN FitNone
    ELSE [kind |-> "Ellipsoid", nr_of_points |-> Len(input.pts)]

fitEllipsoid ==
    \E input \in FitInputs :
        FitApply("fitEllipsoid", input, "ok", FitEllipsoidValue(input))

----------------------------------------------------------------------------
(* smoothMLS3D *)

\* the meshes handed over after the object itself, which has time 0: none,
\* one mesh of time 1, two meshes of times 1 and 2
OtherMeshes ==
    {<< >>,
     <<[pts |-> Prefix(PatternA, 3), time |-> 1]>>,
     <<[pts |-> Prefix(PatternA, 3), time |-> 1],
       [pts |-> Prefix(PatternB, 3), time |-> 2]>>}

\* the argument neighbours
Neighbours == {1, 5, 6, MaxPts + 2}

\* coords4d: the points of every mesh in turn, the time of the mesh appended
RECURSIVE Coords4d(_)
Coords4d(meshs) ==
    IF Len(meshs) = 0 THEN << >>
    ELSE [i \in 1..Len(meshs[1].pts) |->
             <<meshs[1].pts[i][1], meshs[1].pts[i][2], meshs[1].pts[i][3],
               meshs[1].time>>]
         \o Coords4d(Tail(meshs))

Dist4(p, q) ==
    (p[1] - q[1]) * (p[1] - q[1]) + (p[2] - q[2]) * (p[2] - q[2])
        + (p[3] - q[3]) * (p[3] - q[3]) + (p[4] - q[4]) * (p[4] - q[4])

\* kd.query(mypt, k=neighbours): the ids of the k points nearest to point i
\* (of equidistant points the one of lower id first)
KDQuery(coords, i, k) ==
    {j \in 1..Len(coords) :
        Cardinality({l \in 1..Len(coords) :
            \/ Dist4(coords[l], coords[i]) < Dist4(coords[j], coords[i])
            \/ Dist4(coords[l], coords[i]) = Dist4(coords[j], coords[i]) /\ l < j})
            < k}

\* nc = len(closest): the number of rows of coords4d[iclosest], which for
\* k = 1 is the single point itself, of 4 entries
ClosestLen(k) == IF k = 1 THEN 4 ELSE k

\* a projected point is appended for point i
Emits(k) == ClosestLen(k) >= k /\ ClosestLen(k) > 5

\* sum over the ids in S of f[j]
RECURSIVE SumOver(_, _)
SumOver(S, f) ==
    IF S = {} THEN 0
    ELSE LET j == CHOOSE x \in S : TRUE
         IN  f[j] + SumOver(S \ {j}, f)

\* a vector along m = lstsq(closest, [1.0] * nc)[0] for rows (x, 0, 0, t):
\* the solution of the normal equations in x and t when these have one, else
\* the minimum-norm solution, which lies along the column sums; the y and z
\* entries of m are 0
HyperplaneNormal(coords, nb) ==
    LET sx == SumOver(nb, [j \in nb |-> coords[j][1]])
        st == SumOver(nb, [j \in nb |-> coords[j][4]])
        sxx == SumOver(nb, [j \in nb |-> coords[j][1] * coords[j][1]])
        sxt == SumOver(nb, [j \in nb |-> coords[j][1] * coords[j][4]])
        stt == SumOver(nb, [j \in nb |-> coords[j][4] * coords[j][4]])
    IN  IF sxx * stt - sxt * sxt # 0
        THEN <<stt * sx - sxt * st, 0, 0, sxx * st - sxt * sx>>
        ELSE <<sx, 0, 0, st>>

\* projpt = mypt - dist * vers for point i, as exact fractions: every entry
\* of dist * vers is shift[k] / den, where
\* dist * vers = m * ((mypt - hpcenter) . m) / (m . m); den = 0 stands for
\* the NaN that the norm of a zero m gives
Projection(coords, i, k) ==
    LET nb == KDQuery(coords, i, k)
        nc == Cardinality(nb)
        m == HyperplaneNormal(coords, nb)
        off == (nc * coords[i][1]
                    - SumOver(nb, [j \in nb |-> coords[j][1]])) * m[1]
               + (nc * coords[i][4]
                    - SumOver(nb, [j \in nb |-> coords[j][4]])) * m[4]
    IN  [id |-> i - 1, mypt |-> coords[i],
         shift |-> <<off * m[1], 0, 0, off * m[4]>>,
         den |-> nc * (m[1] * m[1] + m[4] * m[4])]

\* newcoords4d: the projections of the points in turn
NewCoords4d(coords, k) ==
    IF Emits(k) THEN [i \in 1..Len(coords) |-> Projection(coords, i, k)]
    ELSE << >>

\* smoothMLS3D raises when a mesh has no points (np.append along axis 1 of
\* an empty array), when there are fewer points than neighbours (the query
\* pads its ids with len(coords4d), which coords4d[iclosest] rejects) and
\* when nothing was appended (newcoords4d[:, 3] of an empty array)
MLS3DStatus(meshs, k) ==
    IF \E a \in 1..Len(meshs) : Len(meshs[a].pts) = 0 THEN Raised
    ELSE IF k > 1 /\ Len(Coords4d(meshs)) < k THEN Raised
    ELSE IF Len(NewCoords4d(Coords4d(meshs), k)) = 0 THEN Raised
    ELSE "ok"

\* the Points returned: ccoords3d and, in ctimes, newcoords4d[:, 3]
MLS3DValue(meshs, k) ==
    IF MLS3DStatus(meshs, k) = "ok" THEN NewCoords4d(Coords4d(meshs), k)
    ELSE << >>

\* smoothMLS3D([self] + others, neighbours)
smoothMLS3D ==
    \E others \in OtherMeshes, k \in Neighbours :
        LET meshs == <<[pts |-> GetPoints(TRUE), time |-> 0]>> \o others
        IN  /\ StepOther
            /\ FetchPolydata # None
            /\ _polydata' = FetchPolydata
            /\ ret' = Call("smoothMLS3D", MLS3DStatus(meshs, k),
                           MLS3DValue(meshs, k),
                           [neighbours |-> k, total |-> Len(Coords4d(meshs)),
                            empty |-> \E a \in 1..Len(meshs) :
                                          Len(meshs[a].pts) = 0])
            /\ UNCHANGED <<pd, mapperInput, prop3D, point_locator,
                           cell_locator>>

----------------------------------------------------------------------------

Next ==
    \/ SetPosition
    \/ SetScale
    \/ SetOrientation
    \/ points_get
    \/ points_index
    \/ points_set
    \/ closestPoint
    \/ applyTransform
    \/ mirror
    \/ pointGaussNoise
    \/ pointColors
    \/ smoothMLS1D
    \/ smoothMLS2D

Spec == Init /\ [][Next]_vars

\* every call except the plain coordinate setter
NextNoSetter ==
    \/ SetPosition
    \/ SetScale
    \/ SetOrientation
    \/ points_get
    \/ points_index
    \/ closestPoint
    \/ applyTransform
    \/ mirror
    \/ pointGaussNoise
    \/ pointColors
    \/ smoothMLS1D
    \/ smoothMLS2D

SpecNoSetter == Init /\ [][NextNoSetter]_vars

\* reads and writes of the coordinates, with arrays of every shape
NextShapes ==
    \/ SetPosition
    \/ SetScale
    \/ SetOrientation
    \/ points_get
    \/ points_set
    \/ points_set_shaped

SpecShapes == Init /\ [][NextShapes]_vars

\* the smoothers with factors of every size, on the object in any pose
NextSmooth ==
    \/ SetPosition
    \/ SetScale
    \/ SetOrientation
    \/ mirror
    \/ smoothMLS1D_f
    \/ smoothMLS2D_f

SpecSmooth == Init /\ [][NextSmooth]_vars

\* the fitters, called on the object in any pose and on arrays and lists
NextFit ==
    \/ SetPosition
    \/ SetScale
    \/ SetOrientation
    \/ fitLine
    \/ fitPlane
    \/ fitSphere
    \/ fitEllipsoid

SpecFit == Init /\ [][NextFit]_vars

\* the space-time smoother, called with the object in any pose
NextMLS3D ==
    \/ SetPosition
    \/ SetScale
    \/ SetOrientation
    \/ smoothMLS3D

SpecMLS3D == Init /\ [][NextMLS3D]_vars

\* construction and the setter with lists in either layout
NextLayouts ==
    \/ SetPosition
    \/ SetScale
    \/ SetOrientation
    \/ points_get
    \/ points_set_layout

SpecLayouts == InitLayouts /\ [][NextLayouts]_vars

\* an object and its clone: reads, the setter, pose changes and queries on
\* either of the two
NextClone ==
    \/ SetPosition
    \/ SetScale
    \/ SetOrientation
    \/ points_get
    \/ points_set
    \/ closestPoint
    \/ clone

SpecClone == Init /\ [][NextClone]_vars

\* construction with colours and alphas of every kind, then reads and pose
\* changes of the object built
NextCtor ==
    \/ construct
    \/ Built /\ SetPosition
    \/ Built /\ SetScale
    \/ Built /\ SetOrientation
    \/ Built /\ points_get

SpecCtor == InitNone /\ [][NextCtor]_vars

----------------------------------------------------------------------------
(* Claims *)

SetterReturned == ret.op = "points_set" /\ ret.status = "ok"

\* C1: once points(new_coords) has returned, whatever the pose was before,
\* the pose is the identity and the pose-applied read and the raw read both
\* give exactly the new coordinates.
C1_SetterResetsPose ==
    SetterReturned =>
        /\ MatrixIsIdentity(prop3D)
        /\ GetPoints(TRUE) = ret.args.pts
        /\ GetPoints(FALSE) = ret.args.pts

\* the setter has returned on an object that was scaled, rotated or moved
C1_Witness ==
    /\ SetterReturned
    /\ ~MatrixIsIdentity(ret.args.was)
    /\ Len(ret.args.pts) = MaxPts

\* C2: after points(new_coords) has returned the object holds no point
\* locator and no cell locator.
C2_SetterDropsLocators ==
    SetterReturned => point_locator = NoLocator /\ cell_locator = NoLocator

\* a held locator answers from the present effective coordinates
Current(loc) == loc.exists => LocatorPoints(loc) = Effective

\* C3: whatever calls other than the plain setter are interleaved with the
\* queries, a locator the object holds was built from the present effective
\* coordinates.
C3_LocatorsCurrent == Current(point_locator) /\ Current(cell_locator)

BulkReplaceOps ==
    {"points_set", "applyTransform", "pointGaussNoise",
     "smoothMLS1D", "smoothMLS2D"}

\* C4: every call that replaces the raw coordinates in bulk leaves the pose
\* the identity, so that the effective coordinates are the raw ones.
C4_BulkReplaceResetsPose ==
    ret.op \in BulkReplaceOps /\ ret.status = "ok" =>
        MatrixIsIdentity(prop3D) /\ Effective = pd.pts

\* C5: every point-data array that is present has one entry per point.
C5_ArraysMatchPoints ==
    \A a \in ArrayNames :
        pd.arrays[a] # Absent => pd.arrays[a] = Len(pd.pts)

\* C6: after a smoothing pass the point stored at index i is the image of
\* the input point that was at index i.
C6_IndexIdentity ==
    ret.op \in {"smoothMLS1D", "smoothMLS2D"} /\ ret.status = "ok" =>
        \A k \in 1..Len(ret.value) : ret.value[k] = k - 1

Getters == {"points_get", "points_index"}

\* what a read returns: the pose applied to the raw coordinates, which are
\* the raw coordinates themselves under the identity pose
ReadIsRight ==
    /\ ret.op = "points_get" =>
          ret.value = (IF ret.args.transformed THEN Effective ELSE pd.pts)
    /\ ret.op = "points_get" /\ MatrixIsIdentity(prop3D) =>
          ret.value = pd.pts
    /\ ret.op = "points_index" /\ ret.status = "ok" =>
          ret.args.i < Len(pd.pts) /\ ret.value = At(Effective, ret.args.i)

Queried == ret.op = "closestPoint"

\* C8: a closestPoint call with N <= 1 and no radius leaves the point
\* locator as it is; a call with N > 1 or a radius creates it from the
\* present coordinates when there is none; and a call that finds one keeps
\* that very locator.
C8_LazyPointLocator ==
    [][ret'.op = "closestPoint" /\ calls' # calls =>
           /\ ~UsesPointLocator(ret'.args.N, ret'.args.radius) =>
                 point_locator' = point_locator
           /\ UsesPointLocator(ret'.args.N, ret'.args.radius)
                 /\ ~point_locator.exists =>
                 /\ point_locator'.exists
                 /\ LocatorPoints(point_locator)' = Effective
           /\ point_locator.exists => point_locator' = point_locator]_vars

\* a query has just gone through a point locator that an earlier call built
\* on coordinates that have changed since
C8_Witness ==
    /\ Queried
    /\ UsesPointLocator(ret.args.N, ret.args.radius)
    /\ point_locator.exists
    /\ LocatorPoints(point_locator) # Effective

\* the points are listed from closest to farthest
Ascending2(pt, ps) ==
    \A k \in 1..(Len(ps) - 1) : Dist2(ps[k], pt) <= Dist2(ps[k + 1], pt)

\* ps lists the points of qs, each once
IsPermutation(ps, qs) ==
    /\ Len(ps) = Len(qs)
    /\ \E f \in [1..Len(ps) -> 1..Len(ps)] :
          /\ \A i, j \in 1..Len(ps) : f[i] = f[j] => i = j
          /\ \A i \in 1..Len(ps) : ps[i] = qs[f[i]]

\* C9: closestPoint(pt, N=k) returns min(k, n) points of the set in
\* ascending distance from pt, all n points each once when k > n.
C9_KNearest ==
    Queried /\ ret.status = "ok" /\ ret.args.N > 1 /\ ~ret.args.returnIds =>
        /\ Len(ret.value) = Min(ret.args.N, Len(Effective))
        /\ Ascending2(ret.args.pt, ret.value)
        /\ ret.args.N > Len(Effective) => IsPermutation(ret.value, Effective)

\* C10: a closestPoint query on an object without points returns an empty
\* result and does not fail.
C10_EmptyQuery ==
    Queried /\ Len(pd.pts) = 0 =>
        /\ ret.status = "ok"
        /\ UsesPointLocator(ret.args.N, ret.args.radius)
        /\ ret.value = << >>

SmoothOps == {"smoothMLS1D", "smoothMLS2D"}

\* all rows of the array have k entries
RowsOf(k, pts) == \A i \in 1..Len(pts) : Len(pts[i]) = k

\* N points of dimension 2 as N points of dimension 3 with z = 0
Promoted(pts) == [i \in 1..Len(pts) |-> <<pts[i][1], pts[i][2], 0>>]

\* C11: a smoothing pass over an object that has points does not fail,
\* however many points it skips, and stores one point per input point it
\* kept. (A pass that fails leaves the points as they were.)
C11_SkipsNeverAbort ==
    ret.op \in SmoothOps /\ Len(pd.pts) > 0 =>
        ret.status = "ok" /\ Len(pd.pts) = Len(ret.value)

\* C12: fitSphere returns None whenever the matrix of the least-squares
\* system has rank below 4, and a sphere when the rank is 4.
C12_SphereIffRank4 ==
    ret.op = "fitSphere" =>
        /\ ret.status = "ok"
        /\ ret.value = FitNone <=> ~RankIs4(SphereMatrix(ret.args.pts))

\* C13: fitEllipsoid returns None for fewer than 4 points and, for n >= 4
\* points, an ellipsoid whose nr_of_points is n.
C13_EllipsoidFrom4 ==
    ret.op = "fitEllipsoid" =>
        /\ ret.status = "ok"
        /\ Len(ret.args.pts) < 4 => ret.value = FitNone
        /\ Len(ret.args.pts) >= 4 =>
              /\ ret.value.kind = "Ellipsoid"
              /\ ret.value.nr_of_points = Len(ret.args.pts)

\* fitEllipsoid has built an ellipsoid from exactly four points
C13_Witness ==
    /\ ret.op = "fitEllipsoid"
    /\ Len(ret.args.pts) = 4
    /\ ret.value.kind = "Ellipsoid"

\* number of different points in a list
Distinct(pts) == Cardinality({pts[i] : i \in 1..Len(pts)})

\* C14: fitLine on fewer than 2 distinct points and fitPlane on fewer than 3
\* points fail instead of returning a line or a plane.
C14_TooFewPointsFail ==
    /\ ret.op = "fitLine" /\ Distinct(ret.args.pts) < 2 => ret.status = Raised
    /\ ret.op = "fitPlane" /\ Len(ret.args.pts) < 3 => ret.status = Raised

\* C15: the setter stores N points of dimension 2 as N points with z = 0,
\* for every N, and fails, leaving the pose as it was, on an array whose
\* rows are neither of dimension 2 nor of dimension 3.
C15_SetterShapes ==
    ret.op = "points_set" =>
        /\ ret.status = "ok" /\ RowsOf(2, ret.args.pts) =>
              pd.pts = Promoted(ret.args.pts)
        /\ _polydata # None /\ pd.hasPoints /\ RowsOf(4, ret.args.pts) =>
              ret.status = Raised /\ prop3D = ret.args.was

\* the constructor raises when the list of colours or of alphas has not one
\* entry per point
CtorMismatchRaises ==
    \A plist \in CoordLists :
        \A c \in ColorArgs(Len(plist)), alpha \in AlphaArgs(Len(plist)) :
            \/ c.seq /\ c.elem = 4 /\ c.len # Len(plist)
            \/ alpha.seq /\ alpha.len # Len(plist)
            => CtorRGBA(Len(plist), c, alpha) = CtorRaised

\* C16: a list of colours, of alphas or of scalars whose length is not the
\* number of points makes the call fail: in the constructor and in
\* pointColors.
C16_MismatchFails ==
    /\ CtorMismatchRaises
    /\ ret.op = "pointColors" /\ ret.args.k # Len(pd.pts) =>
          ret.status = Raised

\* the points a locator held after a smoothing step searched during it
LoopPoints(loc) == IF loc.own THEN pd.pts ELSE loc.pts

\* ids of the points of coords that have at least least points of lpts
\* within radius
RadiusKept(coords, lpts, radius, least) ==
    SelectSeq([k \in 1..Len(coords) |-> k - 1],
              LAMBDA i : Cardinality({j \in Ids(lpts) :
                             Dist2(At(lpts, j), At(coords, i)) <= radius * radius})
                         >= least)

\* C17: when a radius is given to smoothMLS1D or smoothMLS2D, no count is
\* made of f (N = 0 goes to closestPoint) and the points kept are those with
\* enough points within the radius, whatever f is.
C17_RadiusFirst ==
    [][ret'.op \in SmoothOps /\ calls' # calls /\ Truthy(ret'.args.radius) =>
           /\ ret'.args.N = 0
           /\ ret'.value = RadiusKept(GetPoints(TRUE), LoopPoints(point_locator'),
                                      ret'.args.radius,
                                      IF ret'.op = "smoothMLS1D" THEN 4 ELSE 5)]_vars

\* a pass with a radius and the largest f has skipped the one point that is
\* far from the others
C17_Witness ==
    /\ ret.op \in SmoothOps
    /\ ret.status = "ok"
    /\ ret.args.radius = 4
    /\ ret.args.f = 1100
    /\ ret.value = <<0>> \o [k \in 1..(MaxPts - 2) |-> k + 1]

\* the points of pts within radius of pt
WithinRadius(pts, pt, radius) ==
    {i \in 1..Len(pts) : Dist2(pts[i], pt) <= radius * radius}

\* C18: closestPoint with a radius returns the points within that radius of
\* pt, whatever N is. (Stated for a locator that searches the present
\* coordinates.)
C18_RadiusWithAnyN ==
    /\ Queried
    /\ ret.status = "ok"
    /\ Truthy(ret.args.radius)
    /\ ~ret.args.returnIds
    /\ LocatorPoints(point_locator) = Effective
    => /\ Len(ret.value) =
            Cardinality(WithinRadius(Effective, ret.args.pt, ret.args.radius))
       /\ \A k \in 1..Len(ret.value) :
            \E i \in WithinRadius(Effective, ret.args.pt, ret.args.radius) :
                ret.value[k] = Effective[i]

\* C19: what a smoothing pass keeps is determined by the effective
\* coordinates, f and radius: it is what a search of those coordinates
\* gives, whatever was called on the object before.
C19_SmoothersArePure ==
    [][ret'.op \in SmoothOps /\ calls' # calls =>
           ret'.value =
               IF ret'.op = "smoothMLS1D"
               THEN Kept1D(Effective, Effective, ret'.args.N, ret'.args.radius)
               ELSE Kept2D(Effective, Effective, ret'.args.N, ret'.args.radius)]_vars

\* a / b rounded to the nearest integer, halves to the even one
RoundDiv(a, b) ==
    LET q == a \div b
        r == a % b
    IN  IF 2 * r < b THEN q
        ELSE IF 2 * r > b THEN q + 1
        ELSE IF q % 2 = 0 THEN q ELSE q + 1

AtLeast5(n) == IF n < 5 THEN 5 ELSE n

\* the divisor of ncoords * f (f in tenths) in either smoother
NcpDivisor(op) == IF op = "smoothMLS1D" THEN 100 ELSE 1000

\* C20, as stated: without a radius the count is max(5, round(N*f/10)) in
\* smoothMLS1D and max(5, round(N*f/100)) in smoothMLS2D.
C20_NcpRounds ==
    [][ret'.op \in SmoothOps /\ calls' # calls /\ ~Truthy(ret'.args.radius) =>
           ret'.args.N = AtLeast5(RoundDiv(Len(GetPoints(TRUE)) * ret'.args.f,
                                           NcpDivisor(ret'.op)))]_vars

\* C20, amended: without a radius the count is max(5, int(N*f/10)) in
\* smoothMLS1D and max(5, int(N*f/100)) in smoothMLS2D, the quotient being
\* truncated.
C20_NcpTruncates ==
    [][ret'.op \in SmoothOps /\ calls' # calls /\ ~Truthy(ret'.args.radius) =>
           ret'.args.N = AtLeast5((Len(GetPoints(TRUE)) * ret'.args.f)
                                      \div NcpDivisor(ret'.op))]_vars

\* a pass without radius over MaxPts points whose quotient N*f/10 lies
\* half-way between MaxPts and the next integer has used the count MaxPts
C20_Witness ==
    /\ ret.op = "smoothMLS1D"
    /\ ret.status = "ok"
    /\ ret.args.radius = NoRadius
    /\ ret.args.f = 110
    /\ Len(ret.value) = MaxPts
    /\ ret.args.N = (MaxPts * 110) \div 100
    /\ ret.args.N < RoundDiv(MaxPts * 110, 100)

\* the projection of p on the fitted line lies between the endpoints p1 and
\* p2 of the Line: with t the offset of p from the centre along slope,
\* -a <= t <= b, compared in squares and scaled by n and by the length of
\* slope
OnSegment(line, p) ==
    LET T == Dot(Sub(Times(line.n, p), line.center), line.slope)
        len2 == Dot(line.slope, line.slope)
    IN  IF T >= 0 THEN T * T <= line.b2 * len2
        ELSE T * T <= line.a2 * len2

\* C21: for collinear input the projection of every input point on the line
\* fitted by fitLine lies between the two endpoints of the returned segment,
\* whichever sign the principal direction has.
C21_SegmentSpansData ==
    ret.op = "fitLine" /\ ret.status = "ok" /\ ret.value.collinear =>
        \A i \in 1..Len(ret.args.pts) : OnSegment(ret.value, ret.args.pts[i])

\* C22: smoothMLS3D completes for every value of neighbours and every number
\* of points, and emits a projected point for exactly those points whose
\* neighbourhood (the neighbours nearest points, all points when there are
\* fewer) has at least neighbours members and more than 5.
C22_EmitsOrOmits ==
    ret.op = "smoothMLS3D" /\ ~ret.args.empty =>
        /\ ret.status = "ok"
        /\ Len(ret.value) =
              IF /\ Min(ret.args.neighbours, ret.args.total) >= ret.args.neighbours
                 /\ Min(ret.args.neighbours, ret.args.total) > 5
              THEN ret.args.total ELSE 0

\* C23: the time value smoothMLS3D puts out for an emitted point is the time
\* of the mesh the point came from: the projection leaves it as it was.
C23_TimeRetained ==
    ret.op = "smoothMLS3D" /\ ret.status = "ok" =>
        \A e \in 1..Len(ret.value) :
            ret.value[e].den # 0 /\ ret.value[e].shift[4] = 0

\* the list has k rows of more than 3 entries each
IsRows(k, plist) == Len(plist) = k /\ \A i \in 1..k : Len(plist[i]) > 3

\* C24: the constructor stores, for [all_x, all_y, all_z] with N > 3, the N
\* points (x_i, y_i, z_i) in order, as it does for the list of these points;
\* and the setter stores for an input what the constructor stores for it.
C24_LayoutsAgree ==
    /\ ret.op = "__init__" /\ IsRows(3, ret.args.plist) =>
          pd.pts = [i \in 1..Len(ret.args.plist[1]) |->
                       <<ret.args.plist[1][i], ret.args.plist[2][i],
                         ret.args.plist[3][i]>>]
    /\ ret.op = "__init__" /\ Len(ret.args.plist) > 3 =>
          pd.pts = ret.args.plist
    /\ SetterReturned => pd.pts = CtorArray(ret.args.pts)

\* C25: a smoothMLS2D pass over points that lie on one plane (as all points
\* of the x axis do) returns, leaves every point where it was and records
\* the residual 0 for each; so does a second pass.
C25_PlanarIdempotent ==
    [][/\ ret'.op = "smoothMLS2D"
       /\ calls' # calls
       /\ Len(pd.pts) > 0
       /\ \A i \in 1..Len(pd.pts) : pd.pts[i] # Garbage
       => /\ ret'.status = "ok"
          /\ Effective' = Effective
          /\ info'.set
          /\ info'.variances = [k \in 1..Len(Effective) |-> 0]]_vars

\* C27: after a smoothMLS1D or smoothMLS2D call that returns,
\* info["variances"] holds one residual per point now stored, in the order
\* of the points.
C27_OneVariancePerPoint ==
    ret.op \in SmoothOps /\ ret.status = "ok" =>
        /\ info.set
        /\ Len(info.variances) = Len(pd.pts)
        /\ Len(info.variances) = Len(ret.value)

\* a pass that skipped one of MaxPts points has returned
C27_Witness ==
    /\ ret.op \in SmoothOps
    /\ ret.status = "ok"
    /\ Len(ret.value) = MaxPts - 1
    /\ Len(pd.pts) = MaxPts - 1
    /\ Len(info.variances) = MaxPts - 1

\* no stored point holds values read from outside a buffer
NoGarbageStored == \A i \in 1..Len(pd.pts) : pd.pts[i] # Garbage

\* C26: every point id closestPoint gets from the point locator is an index
\* into the present point set: an id it returns is below the number of
\* points, and a coordinate it looks up is read inside the buffer.
C26_IdsAreIndices ==
    /\ Queried
    /\ ret.status = "ok"
    /\ UsesPointLocator(ret.args.N, ret.args.radius)
    => \A k \in 1..Len(ret.value) :
           IF ret.args.returnIds THEN ret.value[k] < Len(pd.pts)
           ELSE NoGarbageStored => ret.value[k] # Garbage

\* position, orientation and scale of two actors are the same
SamePose(p, q) ==
    p.Position = q.Position /\ p.Orientation = q.Orientation /\ p.Scale = q.Scale

\* what a call on one object must not touch in the other
OtherState ==
    <<OtherPolyData.pts, other.prop3D, other.point_locator, other.cell_locator>>

\* the copy as clone() returns it: of the two objects, the one with the role
\* "clone"
CloneIsExact ==
    /\ OtherPolyData.pts = pd.pts
    /\ SamePose(other.prop3D, prop3D)
    /\ IF other.role = "clone"
       THEN other.point_locator = NoLocator /\ other.cell_locator = NoLocator
       ELSE point_locator = NoLocator /\ cell_locator = NoLocator

\* C28: right after clone() the copy has the raw coordinates and the pose
\* of the original and no locator; any later call on one of the two objects
\* (setter, pose change, query building a locator) leaves the raw
\* coordinates, pose and locators of the other as they were.
C28_CloneIsIndependent ==
    [][/\ ret'.op = "clone" /\ calls' # calls => CloneIsExact'
       /\ other.exists => OtherState' = OtherState]_vars

\* the setter has stored other coordinates in one of the two objects, after
\* the clone was taken of a posed original that held a locator
C28_Witness ==
    /\ other.exists
    /\ SetterReturned
    /\ pd.pts # other.pd.pts
    /\ ~MatrixIsIdentity(other.prop3D)

\* C29: applyTransform(T) leaves the pose the identity, the effective
\* coordinates T applied to the effective coordinates before the call,
\* whatever the pose was, and the number of points as it was.
C29_TransformIsBaked ==
    [][ret'.op = "applyTransform" /\ calls' # calls =>
           /\ MatrixIsIdentity(prop3D')
           /\ Effective' = TransformPoints(ret'.args.T, Effective)
           /\ pd'.pts = Effective'
           /\ Len(pd'.pts) = Len(pd.pts)]_vars

\* a translation has been applied to MaxPts points of an object that was
\* turned round and moved
C29_Witness ==
    /\ ret.op = "applyTransform"
    /\ ret.args.T = Translate1
    /\ ret.args.was.Orientation = 180
    /\ ret.args.was.Position = 1
    /\ Len(pd.pts) = MaxPts
    /\ pd.pts # TransformPoints(ret.args.was,
                                TransformPoints(Translate1, Prefix(PatternA, MaxPts)))

\* a list of colours or of alphas was given that has not one entry per point
ListMismatch(n, c, alpha) ==
    \/ c.seq /\ c.elem = 4 /\ c.len # n
    \/ alpha.seq /\ alpha.len # n

\* C30: the constructor raises only when a list of colours or of alphas has
\* not one entry per point; with one alpha per point and a single colour
\* (the default tuple or a colour name) it builds the n points.
C30_RaisesOnlyOnMismatch ==
    ret.op = "__init__" =>
        /\ ret.status = Raised =>
              ListMismatch(ret.args.n, ret.args.c, ret.args.alpha)
        /\ /\ ret.args.alpha = AlphaList(ret.args.n)
           /\ ret.args.c \in {DefaultColor, ColorName}
           => ret.status = "ok" /\ Len(pd.pts) = ret.args.n

====
